---- MODULE Spec2Model ----
(***************************************************************************)
(* A model of the git branch cleaner: command-line parsing (cli.ts),       *)
(* configuration loading and glob matching (config.ts), the merge of both  *)
(* in runAgent, the MCP tool handlers of index.ts acting on a git          *)
(* repository, and the conversation loop of runAgent.                      *)
(*                                                                         *)
(* Strings of the program are sequences of one-character strings, so that  *)
(* parseInt, startsWith, the regular expression built by matchGlobPattern  *)
(* and the spread of a string into its characters are computed rather      *)
(* than assumed.                                                           *)
(***************************************************************************)
EXTENDS Integers, Sequences, FiniteSets, TLC

VARIABLES
    pc,               \* where the program is: start, parsed, configured, running, exited, session
    argv,             \* process.argv.slice(2)
    args,             \* the CliArgs parseArgs returned
    fsys,             \* which configuration files exist
    doc,              \* what readFileSync + JSON.parse gave for the file that was read
    config,           \* the Config loadConfig returned
    load,             \* how loadConfig ended and the path it read
    excludePatterns,  \* runAgent's effective exclude patterns
    staleDays,        \* runAgent's effective stale threshold
    repoPath,         \* runAgent's repository path
    local,            \* the repository's local branches
    remote,           \* the branches of the remote
    current,          \* the checked-out branch (HEAD when detached)
    approved,         \* branches listed by an ask_confirmation that returned confirmed = true
    last,             \* the latest tool call and its result
    dels,             \* success flags of the delete calls whose git delete ran, in order
    loop,             \* runAgent's conversation loop: its position, prompt and turn
    glob,             \* a call of matchGlobPattern: its arguments and its result
    ask               \* a call of ask_confirmation: its arguments, the answer, its result

vars == <<pc, argv, args, fsys, doc, config, load, excludePatterns, staleDays, repoPath,
          local, remote, current, approved, last, dels, loop, glob, ask>>

startupVars == <<pc, argv, args, fsys, doc, config, load, excludePatterns, staleDays, repoPath>>
sessionVars == <<local, remote, current, approved, last, dels>>
ownVars == <<loop, glob, ask>>

\* the conversation loop has not started, matchGlobPattern and
\* ask_confirmation are not being called
NoLoop == [at |-> "none"]
NoGlob == [at |-> "none"]
NoAsk == [at |-> "none"]
OwnIdle == loop = NoLoop /\ glob = NoGlob /\ ask = NoAsk

(***************************************************************************)
(* Bounds of the model.                                                    *)
(***************************************************************************)
MaxArgs == 2
MaxCliArgs == 4
MaxNameLen == 3
MaxDays == 3
MaxTurns == 3
MaxMessages == 3
MaxPatternLen == 3
MaxBatch == 3
MaxAnswerLen == 4

(***************************************************************************)
(* JavaScript values.                                                      *)
(***************************************************************************)
JUndef == [t |-> "undefined", n |-> 0, half |-> FALSE, s |-> <<>>, a |-> <<>>]
JNull == [t |-> "null", n |-> 0, half |-> FALSE, s |-> <<>>, a |-> <<>>]
JNum(i) == [t |-> "number", n |-> i, half |-> FALSE, s |-> <<>>, a |-> <<>>]
\* the number i + 0.5
JHalf(i) == [t |-> "number", n |-> i, half |-> TRUE, s |-> <<>>, a |-> <<>>]
JStr(str) == [t |-> "string", n |-> 0, half |-> FALSE, s |-> str, a |-> <<>>]
JArr(arr) == [t |-> "array", n |-> 0, half |-> FALSE, s |-> <<>>, a |-> arr]
JBool == [t |-> "boolean", n |-> 0, half |-> FALSE, s |-> <<>>, a |-> <<>>]
JObj == [t |-> "object", n |-> 0, half |-> FALSE, s |-> <<>>, a |-> <<>>]

\* a ?? b
Nullish(v) == v.t \in {"undefined", "null"}
Coalesce(v, d) == IF Nullish(v) THEN d ELSE v

\* if (v): undefined, null, "" are falsy (the values this program tests)
Truthy(v) == ~Nullish(v) /\ ~(v.t = "string" /\ v.s = <<>>)

\* [...v]: an array spreads to its elements, a string to its characters;
\* a number, a boolean or a plain object is not iterable (TypeError)
Iterable(v) == v.t \in {"array", "string"}
SpreadString(str) == [i \in 1..Len(str) |-> <<str[i]>>]
Spread(v) == IF v.t = "array" THEN v.a ELSE SpreadString(v.s)

(***************************************************************************)
(* config.ts: the glob matcher.                                            *)
(***************************************************************************)
RegexSpecial == {".", "+", "^", "$", "{", "}", "(", ")", "|", "[", "]", "\\"}
LineTerminators == {"\n", "\r"}

\* pattern.replace(/[.+^${}()|[\]\\]/g, "\\$&")
RECURSIVE EscapeSpecial(_)
EscapeSpecial(p) ==
    IF p = <<>> THEN <<>>
    ELSE (IF Head(p) \in RegexSpecial THEN <<"\\", Head(p)>> ELSE <<Head(p)>>)
         \o EscapeSpecial(Tail(p))

\* .replace(/\*/g, ".*")
RECURSIVE ReplaceStar(_)
ReplaceStar(p) ==
    IF p = <<>> THEN <<>>
    ELSE (IF Head(p) = "*" THEN <<".", "*">> ELSE <<Head(p)>>) \o ReplaceStar(Tail(p))

\* .replace(/\?/g, ".")
RECURSIVE ReplaceQuestion(_)
ReplaceQuestion(p) ==
    IF p = <<>> THEN <<>>
    ELSE (IF Head(p) = "?" THEN <<".">> ELSE <<Head(p)>>) \o ReplaceQuestion(Tail(p))

\* regexPattern without the escaping of the special characters
regexPatternUnescaped(pattern) == ReplaceQuestion(ReplaceStar(pattern))

regexPattern(pattern) == ReplaceQuestion(ReplaceStar(EscapeSpecial(pattern)))

\* new RegExp("^" + re + "$").test(str), for the regular expressions the
\* program builds: an atom is \c (the character c), . (any character but a
\* line terminator) or a plain character, and may be followed by *.
RECURSIVE RegExpTest(_, _)
RegExpTest(re, str) ==
    IF re = <<>> THEN str = <<>>
    ELSE
        LET esc == Head(re) = "\\" /\ Len(re) >= 2
            alen == IF esc THEN 2 ELSE 1
            lit == IF esc THEN re[2] ELSE Head(re)
            any == ~esc /\ Head(re) = "."
            star == Len(re) > alen /\ re[alen + 1] = "*"
            rest == SubSeq(re, alen + (IF star THEN 2 ELSE 1), Len(re))
            hit == /\ str # <<>>
                   /\ IF any THEN Head(str) \notin LineTerminators ELSE Head(str) = lit
        IN  IF star
            THEN RegExpTest(rest, str) \/ (hit /\ RegExpTest(re, Tail(str)))
            ELSE hit /\ RegExpTest(rest, Tail(str))

matchGlobPattern(str, pattern) ==
    \/ str = pattern
    \/ RegExpTest(regexPattern(pattern), str)

matchesExcludePattern(branchName, patterns) ==
    \E i \in 1..Len(patterns) : matchGlobPattern(branchName, patterns[i])

(***************************************************************************)
(* config.ts: the defaults and loadConfig.                                 *)
(***************************************************************************)
DefaultStaleDays == 30

BuiltinProtected ==
    << <<"m","a","i","n">>,
       <<"m","a","s","t","e","r">>,
       <<"d","e","v">>,
       <<"d","e","v","e","l","o","p">>,
       <<"d","e","v","e","l","o","p","m","e","n","t">>,
       <<"s","t","a","g","e">>,
       <<"s","t","a","g","i","n","g">>,
       <<"p","r","o","d">>,
       <<"p","r","o","d","u","c","t","i","o","n">>,
       <<"p","r","e","v","i","e","w">>,
       <<"r","e","l","e","a","s","e">> >>

DEFAULT_CONFIG ==
    [excludePatterns |-> <<>>,
     staleDays |-> JNum(DefaultStaleDays),
     protectedBranches |-> BuiltinProtected]

CONFIG_FILE_NAMES ==
    <<".branchcleanerrc", ".branchcleanerrc.json", ".branchcleaner.json",
      "branchcleaner.config.json">>

NoPath == [def |-> FALSE, custom |-> FALSE, name |-> ""]
CustomPath == [def |-> TRUE, custom |-> TRUE, name |-> ""]
CwdPath(fileName) == [def |-> TRUE, custom |-> FALSE, name |-> fileName]

\* SearchConfig without the break: the last file that exists wins
SearchConfigNoBreak(i, fs) ==
    LET hits == {j \in i..Len(CONFIG_FILE_NAMES) : CONFIG_FILE_NAMES[j] \in fs.names}
    IN  IF hits = {} THEN NoPath
        ELSE CwdPath(CONFIG_FILE_NAMES[CHOOSE j \in hits : \A k \in hits : j >= k])

\* for (const fileName of CONFIG_FILE_NAMES) if (fs.existsSync(...)) { configPath = ...; break }
RECURSIVE SearchConfig(_, _)
SearchConfig(i, fs) ==
    IF i > Len(CONFIG_FILE_NAMES) THEN NoPath
    ELSE IF CONFIG_FILE_NAMES[i] \in fs.names THEN CwdPath(CONFIG_FILE_NAMES[i])
    ELSE SearchConfig(i + 1, fs)

\* the path loadConfig decides to read, if any
configPathOf(customPath, fs) ==
    IF Truthy(customPath)
    THEN (IF fs.custom THEN CustomPath ELSE NoPath)
    ELSE SearchConfig(1, fs)

\* userConfig.<key> for the value JSON.parse returned: a property of a
\* primitive or of an array that has no such key is undefined
userField(d, v) == IF d.parse = "object" THEN v ELSE JUndef

\* does the try block complete?  readFileSync and JSON.parse may throw, a
\* property read of null throws, and so does the spread of a non-iterable
TryCompletes(d) ==
    /\ d.parse \in {"primitive", "array", "object"}
    /\ LET ep == userField(d, d.excludePatterns)
           pb == userField(d, d.protectedBranches)
       IN  /\ Nullish(ep) \/ Iterable(ep)
           /\ Nullish(pb) \/ Iterable(pb)

\* mergedConfig with the user's protectedBranches replacing the built-in list
mergedConfigUserProtected(d) ==
    [excludePatterns |->
        DEFAULT_CONFIG.protectedBranches
            \o Spread(Coalesce(userField(d, d.excludePatterns), JArr(<<>>))),
     staleDays |-> Coalesce(userField(d, d.staleDays), DEFAULT_CONFIG.staleDays),
     protectedBranches |->
        Spread(Coalesce(userField(d, d.protectedBranches),
                        JArr(DEFAULT_CONFIG.protectedBranches)))]

\* mergedConfig without the built-in names in excludePatterns
mergedConfigNoFold(d) ==
    [excludePatterns |->
        Spread(Coalesce(userField(d, d.excludePatterns), JArr(<<>>))),
     staleDays |-> Coalesce(userField(d, d.staleDays), DEFAULT_CONFIG.staleDays),
     protectedBranches |->
        DEFAULT_CONFIG.protectedBranches
            \o Spread(Coalesce(userField(d, d.protectedBranches), JArr(<<>>)))]

\* the object the try block returns
mergedConfig(d) ==
    [excludePatterns |->
        DEFAULT_CONFIG.protectedBranches
            \o Spread(Coalesce(userField(d, d.excludePatterns), JArr(<<>>))),
     staleDays |-> Coalesce(userField(d, d.staleDays), DEFAULT_CONFIG.staleDays),
     protectedBranches |->
        DEFAULT_CONFIG.protectedBranches
            \o Spread(Coalesce(userField(d, d.protectedBranches), JArr(<<>>)))]

\* loadConfig(customPath) in a file system fs where reading and parsing the
\* chosen file gives d
loadConfig(customPath, fs, d) ==
    LET configPath == configPathOf(customPath, fs)
    IN  IF Truthy(customPath) /\ ~fs.custom
        THEN [outcome |-> "customMissing", path |-> NoPath, config |-> DEFAULT_CONFIG]
        ELSE IF ~configPath.def
        THEN [outcome |-> "noFile", path |-> NoPath, config |-> DEFAULT_CONFIG]
        ELSE IF TryCompletes(d)
        THEN [outcome |-> "loaded", path |-> configPath, config |-> mergedConfig(d)]
        ELSE [outcome |-> "parseFailed", path |-> configPath, config |-> DEFAULT_CONFIG]

(***************************************************************************)
(* cli.ts: parseArgs.                                                      *)
(***************************************************************************)
Digits == {"0", "1", "2", "3", "4", "5", "6", "7", "8", "9"}
WhiteSpace == {" ", "\t", "\n", "\r"}

DigitValue(c) ==
    CASE c = "0" -> 0 [] c = "1" -> 1 [] c = "2" -> 2 [] c = "3" -> 3 [] c = "4" -> 4
      [] c = "5" -> 5 [] c = "6" -> 6 [] c = "7" -> 7 [] c = "8" -> 8 [] OTHER -> 9

RECURSIVE SkipWhiteSpace(_)
SkipWhiteSpace(str) ==
    IF str # <<>> /\ Head(str) \in WhiteSpace THEN SkipWhiteSpace(Tail(str)) ELSE str

\* the value of the longest prefix of digits, given the value acc read so far
RECURSIVE ReadDigits(_, _)
ReadDigits(str, acc) ==
    IF str # <<>> /\ Head(str) \in Digits
    THEN ReadDigits(Tail(str), 10 * acc + DigitValue(Head(str)))
    ELSE acc

NaN == [nan |-> TRUE, n |-> 0]

\* parseInt(v, 10): v is converted to a string ("undefined" for undefined),
\* leading white space is skipped, a sign is read, then the digits; the rest
\* is ignored and no digit at all gives NaN
parseInt(v) ==
    IF v.t # "string" THEN NaN
    ELSE
        LET t0 == SkipWhiteSpace(v.s)
            neg == t0 # <<>> /\ Head(t0) = "-"
            t1 == IF t0 # <<>> /\ Head(t0) \in {"-", "+"} THEN Tail(t0) ELSE t0
        IN  IF t1 = <<>> \/ Head(t1) \notin Digits THEN NaN
            ELSE [nan |-> FALSE,
                  n |-> IF neg THEN 0 - ReadDigits(t1, 0) ELSE ReadDigits(t1, 0)]

Flag(c) == <<"-", c>>
LongHelp == <<"-","-","h","e","l","p">>
LongPath == <<"-","-","p","a","t","h">>
LongConfig == <<"-","-","c","o","n","f","i","g">>
LongExclude == <<"-","-","e","x","c","l","u","d","e">>
LongStaleDays == <<"-","-","s","t","a","l","e","-","d","a","y","s">>

InitialArgs ==
    [repoPath |-> JUndef, configPath |-> JUndef, excludePatterns |-> <<>>,
     staleDays |-> JUndef, help |-> FALSE]

\* args[i], undefined past the end
ArgAt(a, i) == IF i <= Len(a) THEN JStr(a[i]) ELSE JUndef

\* arg.startsWith("-")
startsWithDash(arg) == arg # <<>> /\ Head(arg) = "-"

\* defaultCase with every positional argument taken as the path
defaultCaseOverwriting(arg, r) ==
    IF ~startsWithDash(arg) THEN [r EXCEPT !.repoPath = JStr(arg)] ELSE r

\* the default case of the switch: a positional argument
defaultCase(arg, r) ==
    IF ~startsWithDash(arg) /\ ~Truthy(r.repoPath)
    THEN [r EXCEPT !.repoPath = JStr(arg)]
    ELSE r

\* the for loop of parseArgs from index i on, with the result r so far
RECURSIVE ParseFrom(_, _, _)
ParseFrom(a, i, r) ==
    IF i > Len(a) THEN r
    ELSE
        LET arg == a[i]
            val == ArgAt(a, i + 1)
        IN  IF arg \in {Flag("h"), LongHelp}
            THEN ParseFrom(a, i + 1, [r EXCEPT !.help = TRUE])
            ELSE IF arg \in {Flag("p"), LongPath}
            THEN ParseFrom(a, i + 2, [r EXCEPT !.repoPath = val])
            ELSE IF arg \in {Flag("c"), LongConfig}
            THEN ParseFrom(a, i + 2, [r EXCEPT !.configPath = val])
            ELSE IF arg \in {Flag("e"), LongExclude}
            THEN ParseFrom(a, i + 2,
                    IF Truthy(val)
                    THEN [r EXCEPT !.excludePatterns = Append(@, val.s)]
                    ELSE r)
            ELSE IF arg \in {Flag("s"), LongStaleDays}
            THEN ParseFrom(a, i + 2,
                    IF ~parseInt(val).nan
                    THEN [r EXCEPT !.staleDays = JNum(parseInt(val).n)]
                    ELSE r)
            ELSE ParseFrom(a, i + 1, defaultCase(arg, r))

parseArgs(a) == ParseFrom(a, 1, InitialArgs)

(***************************************************************************)
(* index.ts: the tool handlers.  git is an external process: each execGit  *)
(* either returns the command's output or throws "Git command failed:      *)
(* <stderr>", and which of the two is the environment's choice, within     *)
(* what git can do (it deletes only a branch that exists).                 *)
(***************************************************************************)
Main == <<"m","a","i","n">>
Master == <<"m","a","s","t","e","r">>
Feat == <<"f","x">>
Tmp == <<"t","m","p">>
DetachedHead == <<"H","E","A","D">>
Origin == <<"o","r","i","g","i","n">>

Qualified(remoteName, b) == remoteName \o <<"/">> \o b

LocalNames == {Main, Feat, Tmp}
RemoteNames == {Feat, Tmp}
\* the branch names the agent passes to the tools
BranchArgs == LocalNames \cup {Qualified(Origin, Feat)}

CheckedOutMessage == "Cannot delete the currently checked out branch"
GitFailedMessage == "Git command failed"
NoMainMessage == "Could not find main or master branch"

\* which of the references the main branch is looked for under resolve, and
\* what git symbolic-ref refs/remotes/origin/HEAD prints (nothing when it
\* fails)
RemoteHeadPrefix ==
    <<"r","e","f","s","/","r","e","m","o","t","e","s","/","o","r","i","g","i","n","/">>
RemoteHeads == {RemoteHeadPrefix \o Main, RemoteHeadPrefix \o Feat}
NoRefs == [main |-> FALSE, master |-> FALSE, remoteHead |-> <<>>]
\* main and master resolve only if the repository has them
RefsOf(branches) ==
    {r \in [main : BOOLEAN, master : BOOLEAN, remoteHead : RemoteHeads \cup {<<>>}] :
        /\ r.main => Main \in branches
        /\ r.master => Master \in branches}

\* daysSinceLastCommit when it is not computed
NoDays == [nan |-> TRUE, n |-> 0]

NoCall ==
    [tool |-> "none", branch |-> <<>>, target |-> <<>>, flag |-> "", result |-> "none",
     error |-> "", about |-> <<>>, ran |-> FALSE, approvedAtCall |-> FALSE,
     currentAtCall |-> <<>>, listed |-> {}, localBefore |-> {}, remoteBefore |-> {},
     refs |-> NoRefs, mainBranch |-> <<>>, days |-> NoDays, elapsed |-> 0]

\* what a handler returns (or throws): the fields of the call record it decides
Returned(kind, msg, subject, commandRan) ==
    [result |-> kind, error |-> msg, about |-> subject, ran |-> commandRan]

\* the record of a call of a tool with these arguments and this return
CallRecord(toolName, b, tgt, ret) ==
    [NoCall EXCEPT !.tool = toolName, !.branch = b, !.target = tgt,
                   !.result = ret.result, !.error = ret.error, !.about = ret.about,
                   !.ran = ret.ran,
                   !.approvedAtCall = (tgt \in approved \/ Qualified(Origin, tgt) \in approved),
                   !.currentAtCall = current,
                   !.localBefore = local, !.remoteBefore = remote]

\* list_branches: the two for-each-ref calls are not inside a try block, the
\* fetch is
listBranchesReturn(include_local, include_remote, localOk, remoteOk) ==
    IF include_local /\ ~localOk THEN Returned("threw", GitFailedMessage, <<>>, FALSE)
    ELSE IF include_remote /\ ~remoteOk THEN Returned("threw", GitFailedMessage, <<>>, FALSE)
    ELSE Returned("value", "", <<>>, FALSE)

list_branches ==
    /\ pc = "running"
    /\ \E include_local, include_remote, localOk, remoteOk \in BOOLEAN :
        \* a command that is not run has no outcome
        /\ localOk => include_local
        /\ remoteOk => (include_remote /\ (include_local => localOk))
        /\ last' = [CallRecord("list_branches", <<>>, <<>>,
                    listBranchesReturn(include_local, include_remote, localOk, remoteOk))
                 EXCEPT !.listed =
                    IF listBranchesReturn(include_local, include_remote,
                                          localOk, remoteOk).result = "value"
                    THEN (IF include_local THEN local ELSE {})
                         \cup (IF include_remote
                               THEN {Qualified(Origin, r) : r \in remote} ELSE {})
                    ELSE {}]
    /\ UNCHANGED <<local, remote, current, approved, dels>>
    /\ UNCHANGED startupVars
    /\ UNCHANGED ownVars

\* check_merged_status: every execGit is inside a try block
checkMergedReturn(b, mainOk, masterOk, mergedOk, isMerged) ==
    IF ~mainOk /\ ~masterOk THEN Returned("error", NoMainMessage, <<>>, FALSE)
    ELSE IF ~mergedOk THEN Returned("error", GitFailedMessage, b, FALSE)
    ELSE Returned(IF isMerged THEN "merged" ELSE "unmerged", "", b, FALSE)

\* the branch check_merged_status lists the merged branches of, none when it
\* gives up
mergeMainBranch(mainOk, masterOk) ==
    IF mainOk THEN Main ELSE IF masterOk THEN Master ELSE <<>>

check_merged_status ==
    /\ pc = "running"
    /\ \E b \in BranchArgs : \E r \in RefsOf(local) : \E mergedOk, isMerged \in BOOLEAN :
        \* a command that is not run has no outcome
        /\ mergedOk => (r.main \/ r.master)
        /\ isMerged => mergedOk
        /\ last' = [CallRecord("check_merged_status", b, b,
                        checkMergedReturn(b, r.main, r.master, mergedOk, isMerged))
                    EXCEPT !.refs = r, !.mainBranch = mergeMainBranch(r.main, r.master)]
    /\ UNCHANGED <<local, remote, current, approved, dels>>
    /\ UNCHANGED startupVars
    /\ UNCHANGED ownVars

\* get_branch_info: the execGit is inside the try block
branchInfoReturn(b, infoOk) ==
    IF infoOk THEN Returned("value", "", b, FALSE)
    ELSE Returned("error", GitFailedMessage, b, FALSE)

\* the milliseconds of a day
DayMs == 1000 * 60 * 60 * 24

\* daysSinceLastCommit rounded up instead of down
daysSinceLastCommitCeil(now, lastCommitTime) ==
    [nan |-> FALSE, n |-> (now - lastCommitTime + DayMs - 1) \div DayMs]

\* Math.floor((Date.now() - lastCommitDate.getTime()) / (1000 * 60 * 60 * 24))
daysSinceLastCommit(now, lastCommitTime) ==
    [nan |-> FALSE, n |-> (now - lastCommitTime) \div DayMs]

\* the clock and the commit times, in milliseconds from a day's start: the
\* commit is at most a day old at time 0, and the clock may be behind it
CommitTimes == {0, 1, DayMs - 1}
Nows == {d * DayMs + o : d \in 0..MaxDays, o \in {0 - 1, 0, 1}}

\* the date is the fourth field of the line split at "|": an author name
\* with a "|" in it puts another field there, and new Date of that is
\* invalid (its time NaN)
get_branch_info ==
    /\ pc = "running"
    /\ \E b \in BranchArgs : \E infoOk, dateOk \in BOOLEAN :
       \E now \in Nows : \E lastCommitTime \in CommitTimes :
        \* a command that failed has no output
        /\ ~infoOk => (dateOk /\ now = 0 /\ lastCommitTime = 0)
        /\ ~dateOk => (now = 0 /\ lastCommitTime = 0)
        /\ last' = [CallRecord("get_branch_info", b, b, branchInfoReturn(b, infoOk))
                    EXCEPT !.days = IF infoOk /\ dateOk
                                    THEN daysSinceLastCommit(now, lastCommitTime)
                                    ELSE NoDays,
                           !.elapsed = now - lastCommitTime]
    /\ UNCHANGED <<local, remote, current, approved, dels>>
    /\ UNCHANGED startupVars
    /\ UNCHANGED ownVars

\* deleteLocalReturn with the failure of git branch -d/-D swallowed
deleteLocalReturnSilent(branch_name, queryOk, currentBranch, gitOk) ==
    IF ~queryOk THEN Returned("threw", GitFailedMessage, <<>>, FALSE)
    ELSE IF currentBranch = branch_name
    THEN Returned("refused", CheckedOutMessage, <<>>, FALSE)
    ELSE Returned("success", "", branch_name, TRUE)

\* delete_local_branch: the query of the current branch is outside the try
\* block, the git branch -d/-D inside it
deleteLocalReturn(branch_name, queryOk, currentBranch, gitOk) ==
    IF ~queryOk THEN Returned("threw", GitFailedMessage, <<>>, FALSE)
    ELSE IF currentBranch = branch_name
    THEN Returned("refused", CheckedOutMessage, <<>>, FALSE)
    ELSE IF gitOk THEN Returned("success", "", branch_name, TRUE)
    ELSE Returned("error", GitFailedMessage, branch_name, TRUE)

\* the local branches after git branch -d/-D b ended with gitOk
localAfterDelete(branches, b, gitOk) == IF gitOk THEN branches \ {b} ELSE branches

delete_local_branch ==
    /\ pc = "running"
    /\ Len(dels) < MaxBatch
    /\ \E b \in BranchArgs : \E force, queryOk, gitOk \in BOOLEAN :
        LET ret == deleteLocalReturn(b, queryOk, current, gitOk)
        IN  \* git deletes a branch that exists and is not checked out; a
            \* command that is not run has no flag and no outcome
            /\ gitOk => (ret.ran /\ b \in local /\ b # current)
            /\ force => ret.ran
            /\ last' = [CallRecord("delete_local_branch", b, b, ret)
                        EXCEPT !.flag = IF ~ret.ran THEN ""
                                        ELSE IF force THEN "-D" ELSE "-d"]
            /\ local' = IF ret.ran THEN localAfterDelete(local, b, gitOk) ELSE local
            /\ dels' = IF ret.ran THEN Append(dels, gitOk) ELSE dels
    /\ UNCHANGED <<remote, current, approved>>
    /\ UNCHANGED startupVars
    /\ UNCHANGED ownVars

\* branch_name.replace(new RegExp(`^${remote}/`), ""): the regular expression
\* has no *, so what it matches is as long as itself
cleanBranchName(branch_name, remoteName) ==
    LET n == Len(remoteName) + 1
    IN  IF Len(branch_name) >= n
           /\ RegExpTest(remoteName \o <<"/">>, SubSeq(branch_name, 1, n))
        THEN SubSeq(branch_name, n + 1, Len(branch_name))
        ELSE branch_name

\* delete_remote_branch: the git push --delete is inside the try block
deleteRemoteReturn(cleanName, gitOk) ==
    IF gitOk THEN Returned("success", "", cleanName, TRUE)
    ELSE Returned("error", GitFailedMessage, cleanName, TRUE)

delete_remote_branch ==
    /\ pc = "running"
    /\ Len(dels) < MaxBatch
    /\ \E b \in BranchArgs : \E gitOk \in BOOLEAN :
        LET clean == cleanBranchName(b, Origin)
        IN  /\ gitOk => clean \in remote
            /\ last' = [CallRecord("delete_remote_branch", b, clean,
                                   deleteRemoteReturn(clean, gitOk))
                        EXCEPT !.flag = "--delete"]
            /\ remote' = localAfterDelete(remote, clean, gitOk)
            /\ dels' = Append(dels, gitOk)
    /\ UNCHANGED <<local, current, approved>>
    /\ UNCHANGED startupVars
    /\ UNCHANGED ownVars

\* answer.toLowerCase()
UpperCase == <<"A","B","C","D","E","F","G","H","I","J","K","L","M",
               "N","O","P","Q","R","S","T","U","V","W","X","Y","Z">>
LowerCase == <<"a","b","c","d","e","f","g","h","i","j","k","l","m",
               "n","o","p","q","r","s","t","u","v","w","x","y","z">>
LowerChar(c) ==
    IF \E i \in 1..26 : UpperCase[i] = c
    THEN LowerCase[CHOOSE i \in 1..26 : UpperCase[i] = c]
    ELSE c
toLowerCase(str) == [i \in 1..Len(str) |-> LowerChar(str[i])]

\* a comparison that leaves the answer's case alone
askUserConfirmationCaseSensitive(answer) ==
    answer = <<"y","e","s">> \/ answer = <<"y">>

\* askUserConfirmation: what the user typed decides
askUserConfirmation(answer) ==
    toLowerCase(answer) = <<"y","e","s">> \/ toLowerCase(answer) = <<"y">>

Answers == {<<"y","e","s">>, <<"Y">>, <<"n","o">>, <<>>}

\* the message field of ask_confirmation's result
confirmationMessage(confirmed) ==
    IF confirmed THEN "User approved the deletion" ELSE "User cancelled the operation"

\* JSON.stringify({ confirmed, message }): the booleans are written bare, the
\* message between quotes (neither message has a character to escape)
JSONstringify(confirmed, message) ==
    "{\"confirmed\":" \o (IF confirmed THEN "true" ELSE "false")
        \o ",\"message\":\"" \o message \o "\"}"

\* the text of the content ask_confirmation returns
askConfirmationText(confirmed) == JSONstringify(confirmed, confirmationMessage(confirmed))

\* the lists of branches the agent asks to confirm
ConfirmLists == {{Feat}, {Main, Tmp}}

ask_confirmation ==
    /\ pc = "running"
    /\ \E bs \in ConfirmLists : \E answer \in Answers :
        /\ last' = [CallRecord("ask_confirmation", <<>>, <<>>,
                        Returned(IF askUserConfirmation(answer)
                                 THEN "confirmed" ELSE "cancelled", "", <<>>, FALSE))
                    EXCEPT !.listed = bs]
        /\ approved' = IF askUserConfirmation(answer) THEN approved \cup bs ELSE approved
    /\ UNCHANGED <<local, remote, current, dels>>
    /\ UNCHANGED startupVars
    /\ UNCHANGED ownVars

\* get_current_branch: the execGit is not inside a try block
currentBranchReturn(queryOk, currentBranch) ==
    IF queryOk THEN Returned("value", "", currentBranch, FALSE)
    ELSE Returned("threw", GitFailedMessage, <<>>, FALSE)

get_current_branch ==
    /\ pc = "running"
    /\ \E queryOk \in BOOLEAN :
        last' = CallRecord("get_current_branch", <<>>, <<>>,
                           currentBranchReturn(queryOk, current))
    /\ UNCHANGED <<local, remote, current, approved, dels>>
    /\ UNCHANGED startupVars
    /\ UNCHANGED ownVars

\* String.prototype.replace with a string pattern: the first occurrence only
ReplaceFirst(str, pat, by) ==
    LET At(i) == i + Len(pat) - 1 <= Len(str) /\ SubSeq(str, i, i + Len(pat) - 1) = pat
        Hits == {i \in 1..Len(str) : At(i)}
    IN  IF Hits = {} THEN str
        ELSE LET i == CHOOSE h \in Hits : \A g \in Hits : h <= g
             IN  SubSeq(str, 1, i - 1) \o by \o SubSeq(str, i + Len(pat), Len(str))

\* mainBranchReturn with master tried before main
mainBranchReturnMasterFirst(mainOk, masterOk, headOk, remoteHead) ==
    IF masterOk THEN Returned("value", "", Master, FALSE)
    ELSE IF mainOk THEN Returned("value", "", Main, FALSE)
    ELSE IF headOk
    THEN Returned("value", "", ReplaceFirst(remoteHead, RemoteHeadPrefix, <<>>), FALSE)
    ELSE Returned("value", "", Main, FALSE)

\* get_main_branch: main, else master, else the remote's HEAD, else "main";
\* every execGit is inside a try block
mainBranchReturn(mainOk, masterOk, headOk, remoteHead) ==
    IF mainOk THEN Returned("value", "", Main, FALSE)
    ELSE IF masterOk THEN Returned("value", "", Master, FALSE)
    ELSE IF headOk
    THEN Returned("value", "", ReplaceFirst(remoteHead, RemoteHeadPrefix, <<>>), FALSE)
    ELSE Returned("value", "", Main, FALSE)

get_main_branch ==
    /\ pc = "running"
    /\ \E r \in RefsOf(local) :
        last' = [CallRecord("get_main_branch", <<>>, <<>>,
                    mainBranchReturn(r.main, r.master, r.remoteHead # <<>>, r.remoteHead))
                 EXCEPT !.refs = r]
    /\ UNCHANGED <<local, remote, current, approved, dels>>
    /\ UNCHANGED startupVars
    /\ UNCHANGED ownVars

(***************************************************************************)
(* index.ts: processMessage and the conversation loop of runAgent.  A turn *)
(* is the stream of messages query() yields; which messages it yields, and *)
(* what the user types at the prompt, is the environment's choice.  The    *)
(* stream may also throw, and the standard input may be closed at the      *)
(* prompt: the run then stops without leaving the loop.                    *)
(***************************************************************************)
Message(type, subtype) == [type |-> type, subtype |-> subtype]
ResultError == Message("result", "error")
Messages ==
    {Message("assistant", ""), Message("user", ""),
     Message("result", "success"), ResultError, Message("result", "error_max_turns")}

\* processMessage with every result but a success taken as an error
processMessageStrict(message) ==
    ~(message.type = "result" /\ message.subtype # "success")

\* processMessage: false for a result message of subtype "error" only
processMessage(message) ==
    ~(message.type = "result" /\ message.subtype = "error")

\* !userInput || userInput.toLowerCase() === "exit" || ... === "quit"
endsSession(userInput) ==
    \/ userInput = <<>>
    \/ toLowerCase(userInput) = <<"e","x","i","t">>
    \/ toLowerCase(userInput) = <<"q","u","i","t">>

InitialPrompt == <<"i","n","i","t","i","a","l">>

UserInputs ==
    {<<>>, <<"e","x","i","t">>, <<"E","x","I","T">>, <<"Q","U","I","T">>,
     <<"g","o">>, <<" ">>, <<"e","x","i","t"," ">>}

Streams == UNION {[1..n -> Messages] : n \in 0..MaxMessages}

\* the loop about to start its first turn
LoopStart ==
    [at |-> "query", currentPrompt |-> InitialPrompt, queryPrompt |-> <<>>,
     stream |-> <<>>, seen |-> <<>>, userInput |-> <<>>, turns |-> 0, prompts |-> 0]

\* const q = query({prompt: currentPrompt, ...})
StartTurn ==
    /\ loop.at = "query"
    /\ loop.turns < MaxTurns
    /\ \E s \in Streams :
        loop' = [loop EXCEPT !.at = "messages", !.queryPrompt = loop.currentPrompt,
                             !.stream = s, !.seen = <<>>, !.turns = @ + 1]
    /\ UNCHANGED <<startupVars, sessionVars, glob, ask>>

\* one round of the for await: ok = processMessage(message); if (!ok) the
\* loop is left, through the break and the if (!continueConversation) break
NextMessage ==
    /\ loop.at = "messages"
    /\ loop.stream # <<>>
    /\ loop' = [loop EXCEPT !.at = IF processMessage(Head(loop.stream))
                                   THEN "messages" ELSE "complete",
                            !.seen = Append(@, Head(loop.stream)),
                            !.stream = Tail(@)]
    /\ UNCHANGED <<startupVars, sessionVars, glob, ask>>

\* the stream is exhausted: promptUser("[YOU]>") is shown
ShowPrompt ==
    /\ loop.at = "messages"
    /\ loop.stream = <<>>
    /\ loop' = [loop EXCEPT !.at = "prompt", !.prompts = @ + 1]
    /\ UNCHANGED <<startupVars, sessionVars, glob, ask>>

\* the user's line arrives
ReadInput ==
    /\ loop.at = "prompt"
    /\ \E userInput \in UserInputs :
        loop' = [loop EXCEPT !.userInput = userInput,
                             !.at = IF endsSession(userInput) THEN "complete" ELSE "query",
                             !.currentPrompt = IF endsSession(userInput) THEN @ ELSE userInput,
                             \* the turn is over: its messages are forgotten
                             !.seen = IF endsSession(userInput) THEN @ ELSE <<>>]
    /\ UNCHANGED <<startupVars, sessionVars, glob, ask>>

\* query() throws, or the standard input ends at the prompt
Abort ==
    /\ loop.at \in {"messages", "prompt"}
    /\ loop' = [loop EXCEPT !.at = "aborted"]
    /\ UNCHANGED <<startupVars, sessionVars, glob, ask>>

(***************************************************************************)
(* The inputs of a run: the command line, the configuration files that     *)
(* exist, and what reading and parsing the chosen file gives.              *)
(***************************************************************************)
ArgTokens ==
    {Flag("h"), Flag("p"), Flag("c"), Flag("e"), Flag("s"),
     <<"6","0">>, <<"0">>, <<"-","5">>, <<"7","d">>, <<"f","*">>}

Argvs == UNION {[1..n -> ArgTokens] : n \in 0..MaxArgs}

FileSystems == [custom : BOOLEAN, names : SUBSET {CONFIG_FILE_NAMES[i] : i \in 1..4}]

ExcludeValues ==
    {JUndef, JNull, JArr(<< <<"f","*">> >>), JStr(<<"t","*">>), JNum(5)}
StaleValues ==
    {JUndef, JNull, JNum(60), JNum(0), JNum(-3), JHalf(1), JStr(<<"a","b","c">>)}
ProtectedValues ==
    {JUndef, JArr(<< <<"k","e","e","p">> >>), JStr(<<"q">>), JObj}

DocOf(kind) ==
    [parse |-> kind, excludePatterns |-> JUndef, staleDays |-> JUndef,
     protectedBranches |-> JUndef]

NoDoc == DocOf("none")

Docs ==
    {DocOf(k) : k \in {"readError", "syntaxError", "null", "primitive", "array"}}
    \cup [parse : {"object"}, excludePatterns : ExcludeValues,
          staleDays : StaleValues, protectedBranches : ProtectedValues]

NoConfig == [excludePatterns |-> <<>>, staleDays |-> JUndef, protectedBranches |-> <<>>]
NoLoad == [outcome |-> "none", path |-> NoPath]

\* ParseArgs without the exit on help
ParseArgsIgnoringHelp ==
    /\ pc = "start"
    /\ args' = parseArgs(argv)
    /\ pc' = "parsed"
    /\ UNCHANGED <<argv, fsys, doc, config, load, excludePatterns, staleDays, repoPath>>
    /\ UNCHANGED sessionVars
    /\ UNCHANGED ownVars

(***************************************************************************)
(* index.ts: runAgent up to the start of the conversation loop.            *)
(***************************************************************************)
\* const args = parseArgs(), which leaves the process on a help flag
ParseArgs ==
    /\ pc = "start"
    /\ args' = parseArgs(argv)
    /\ pc' = IF parseArgs(argv).help THEN "exited" ELSE "parsed"
    /\ UNCHANGED <<argv, fsys, doc, config, load, excludePatterns, staleDays, repoPath>>
    /\ UNCHANGED sessionVars
    /\ UNCHANGED ownVars

\* const config = await loadConfig(args.configPath), the file holding one of
\* the documents D
LoadConfigFrom(D) ==
    /\ pc = "parsed"
    /\ \E d \in D \cup {NoDoc} :
        /\ (d = NoDoc) <=> ~configPathOf(args.configPath, fsys).def
        /\ doc' = d
        /\ config' = loadConfig(args.configPath, fsys, d).config
        /\ load' = [outcome |-> loadConfig(args.configPath, fsys, d).outcome,
                    path |-> loadConfig(args.configPath, fsys, d).path]
    /\ pc' = "configured"
    /\ UNCHANGED <<argv, args, fsys, excludePatterns, staleDays, repoPath>>
    /\ UNCHANGED sessionVars
    /\ UNCHANGED ownVars

LoadConfig == LoadConfigFrom(Docs)

\* the documents that differ in what runAgent merges with the command line
StartupDocs == {d \in Docs : d.protectedBranches = JUndef}

LoadStartupConfig == LoadConfigFrom(StartupDocs)

\* the effective values of runAgent
\* effectiveExcludePatterns with the command line's patterns put first
effectiveExcludePatternsCliFirst(c, a) == a.excludePatterns \o c.excludePatterns

effectiveExcludePatterns(c, a) == c.excludePatterns \o a.excludePatterns
\* args.staleDays || config.staleDays: a CLI value of 0 counts as absent
effectiveStaleDaysOr(c, a) ==
    IF Nullish(a.staleDays) \/ a.staleDays = JNum(0) THEN c.staleDays ELSE a.staleDays
effectiveStaleDays(c, a) == Coalesce(a.staleDays, c.staleDays)
Cwd == JStr(<<".">>)
effectiveRepoPath(a) == Coalesce(a.repoPath, Cwd)

Merge ==
    /\ pc = "configured"
    /\ excludePatterns' = effectiveExcludePatterns(config, args)
    /\ staleDays' = effectiveStaleDays(config, args)
    /\ repoPath' = effectiveRepoPath(args)
    /\ pc' = "running"
    /\ UNCHANGED <<argv, args, fsys, doc, config, load>>
    /\ UNCHANGED sessionVars
    /\ UNCHANGED ownVars

NoSession ==
    /\ local = {}
    /\ remote = {}
    /\ current = <<>>
    /\ approved = {}
    /\ last = NoCall
    /\ dels = <<>>
    /\ OwnIdle

\* the whole startup, over every command line and three file systems: no
\* file at all, only the file of the explicit path, only the first
\* conventional file
StartupFileSystems ==
    {[custom |-> FALSE, names |-> {}],
     [custom |-> TRUE, names |-> {}],
     [custom |-> FALSE, names |-> {CONFIG_FILE_NAMES[1]}]}

InitStartup ==
    /\ pc = "start"
    /\ argv \in Argvs
    /\ fsys \in StartupFileSystems
    /\ args = InitialArgs
    /\ doc = NoDoc
    /\ config = NoConfig
    /\ load = NoLoad
    /\ excludePatterns = <<>>
    /\ staleDays = JUndef
    /\ repoPath = JUndef
    /\ NoSession

NextStartup == ParseArgs \/ LoadStartupConfig \/ Merge

SpecStartup == InitStartup /\ [][NextStartup]_vars

\* loadConfig alone, over every file system and the command lines that
\* differ in the explicit configuration path
ConfigArgvs ==
    {<<>>, <<Flag("c"), <<"x">>>>, <<Flag("c"), <<>>>>, <<Flag("c")>>}

InitConfig ==
    /\ pc = "start"
    /\ argv \in ConfigArgvs
    /\ fsys \in FileSystems
    /\ args = InitialArgs
    /\ doc = NoDoc
    /\ config = NoConfig
    /\ load = NoLoad
    /\ excludePatterns = <<>>
    /\ staleDays = JUndef
    /\ repoPath = JUndef
    /\ NoSession

NextConfig == ParseArgs \/ LoadConfig

SpecConfig == InitConfig /\ [][NextConfig]_vars

\* the command line alone: longer argument lists over the help, path and
\* exclude options, two positional arguments and the empty argument, with
\* the first conventional file present and either loaded or unparseable
CliTokens ==
    {Flag("h"), LongHelp, Flag("p"), LongPath, Flag("e"), LongExclude,
     <<"a">>, <<"b">>, <<>>}

CliArgvs == UNION {[1..n -> CliTokens] : n \in 0..MaxCliArgs}

CliFileSystem == [custom |-> FALSE, names |-> {CONFIG_FILE_NAMES[1]}]

CliDocs ==
    {DocOf("syntaxError"),
     [parse |-> "object", excludePatterns |-> JArr(<< <<"t","*">> >>),
      staleDays |-> JUndef, protectedBranches |-> JUndef]}

LoadCliConfig == LoadConfigFrom(CliDocs)

InitCli ==
    /\ pc = "start"
    /\ argv \in CliArgvs
    /\ fsys = CliFileSystem
    /\ args = InitialArgs
    /\ doc = NoDoc
    /\ config = NoConfig
    /\ load = NoLoad
    /\ excludePatterns = <<>>
    /\ staleDays = JUndef
    /\ repoPath = JUndef
    /\ NoSession

NextCli == ParseArgs \/ LoadCliConfig \/ Merge

SpecCli == InitCli /\ [][NextCli]_vars

\* matchGlobPattern alone, called with every name and pattern over these
\* characters
NameChars == {"a", "A", ".", "/", "+"}
PatternChars == {"a", "*", "?", ".", "/", "+"}
StringsOver(chars, n) == UNION {[1..k -> chars] : k \in 0..n}

InitGlob ==
    /\ pc = "matching"
    /\ argv = <<>>
    /\ fsys = CliFileSystem
    /\ args = InitialArgs
    /\ doc = NoDoc
    /\ config = NoConfig
    /\ load = NoLoad
    /\ excludePatterns = <<>>
    /\ staleDays = JUndef
    /\ repoPath = JUndef
    /\ local = {}
    /\ remote = {}
    /\ current = <<>>
    /\ approved = {}
    /\ last = NoCall
    /\ dels = <<>>
    /\ loop = NoLoop
    /\ ask = NoAsk
    /\ glob \in [at : {"called"}, str : StringsOver(NameChars, MaxNameLen),
                 pattern : StringsOver(PatternChars, MaxPatternLen), result : {FALSE}]

MatchGlob ==
    /\ glob.at = "called"
    /\ glob' = [glob EXCEPT !.at = "returned",
                            !.result = matchGlobPattern(glob.str, glob.pattern)]
    /\ UNCHANGED <<startupVars, sessionVars, loop, ask>>

NextGlob == MatchGlob

SpecGlob == InitGlob /\ [][NextGlob]_vars

(***************************************************************************)
(* Properties of configuration loading and of the startup.                 *)
(***************************************************************************)
\* the eleven built-in protected names, as the documentation lists them
BuiltInNames ==
    {<<"m","a","i","n">>, <<"m","a","s","t","e","r">>, <<"d","e","v">>,
     <<"d","e","v","e","l","o","p">>, <<"d","e","v","e","l","o","p","m","e","n","t">>,
     <<"s","t","a","g","e">>, <<"s","t","a","g","i","n","g">>, <<"p","r","o","d">>,
     <<"p","r","o","d","u","c","t","i","o","n">>, <<"p","r","e","v","i","e","w">>,
     <<"r","e","l","e","a","s","e">>}

Elements(seq) == {seq[i] : i \in 1..Len(seq)}

ConfigReturned == pc \in {"configured", "running"}

\* the cases of a loadConfig call, read off its inputs
ExplicitPathMissing == Truthy(args.configPath) /\ ~fsys.custom
FileFound ==
    IF Truthy(args.configPath) THEN fsys.custom ELSE fsys.names # {}

\* C4: whatever loadConfig's outcome, the protectedBranches it returns
\* contains each of the eleven built-in names.
C4_ProtectedSuperset ==
    ConfigReturned => BuiltInNames \subseteq Elements(config.protectedBranches)

C4_Witness ==
    /\ pc = "configured"
    /\ FileFound
    /\ doc.parse = "object"
    /\ doc.protectedBranches = JArr(<< <<"k","e","e","p">> >>)
    /\ <<"k","e","e","p">> \in Elements(config.protectedBranches)

\* C5 as stated: after every outcome of loadConfig, each built-in name
\* matches the returned excludePatterns, and the effective list of runAgent.
C5_AlwaysExcluded ==
    /\ pc = "configured" =>
        \A b \in BuiltInNames : matchesExcludePattern(b, config.excludePatterns)
    /\ pc = "running" =>
        \A b \in BuiltInNames : matchesExcludePattern(b, excludePatterns)

\* C5 amended: when a file was loaded, each built-in name matches the
\* returned excludePatterns and the effective list; in every other outcome
\* the returned list is empty and the effective list is the CLI's patterns.
C5_ExcludedWhenLoaded ==
    /\ (pc = "configured" /\ load.outcome = "loaded") =>
        \A b \in BuiltInNames : matchesExcludePattern(b, config.excludePatterns)
    /\ (pc = "running" /\ load.outcome = "loaded") =>
        \A b \in BuiltInNames : matchesExcludePattern(b, excludePatterns)
    /\ (ConfigReturned /\ load.outcome # "loaded") => config.excludePatterns = <<>>
    /\ (pc = "running" /\ load.outcome # "loaded") =>
        excludePatterns = args.excludePatterns

C5_Witness ==
    /\ pc = "running"
    /\ load.outcome = "loaded"
    /\ doc.excludePatterns = JArr(<< <<"f","*">> >>)
    /\ args.excludePatterns = << <<"f","*">> >>
    /\ Len(excludePatterns) = 13

ValidInteger(v) == v.t = "number" /\ ~v.half

\* C6 as stated: when a file is loaded, staleDays is the file's value if it
\* is a valid integer, and the default 30 otherwise.
C6_StaleDaysValidated ==
    (ConfigReturned /\ load.outcome = "loaded") =>
        config.staleDays =
            IF doc.parse = "object" /\ ValidInteger(doc.staleDays)
            THEN doc.staleDays
            ELSE JNum(30)

StaleFlags == {Flag("s"), LongStaleDays}
ValueFlags ==
    {Flag("p"), LongPath, Flag("c"), LongConfig, Flag("e"), LongExclude} \cup StaleFlags

\* the stale-days option stands at position k with a value, is given once,
\* and no earlier option takes it as its value
StaleOptionAt(k) ==
    /\ k + 1 <= Len(argv)
    /\ argv[k] \in StaleFlags
    /\ \A j \in 1..(k - 1) : argv[j] \notin ValueFlags
    /\ \A j \in (k + 2)..Len(argv) : argv[j] \notin StaleFlags

AllDigits(str) == str # <<>> /\ \A i \in 1..Len(str) : str[i] \in Digits
NoDigit(str) == \A i \in 1..Len(str) : str[i] \notin Digits

RECURSIVE DecimalValue(_)
DecimalValue(str) ==
    IF str = <<>> THEN 0
    ELSE 10 * DecimalValue(SubSeq(str, 1, Len(str) - 1)) + DigitValue(str[Len(str)])

NonSequence(v) == v.t \in {"string", "number", "boolean", "object"}
Malformed(d) ==
    \/ d.parse \in {"readError", "syntaxError", "null"}
    \/ d.parse = "object" /\ NonSequence(d.excludePatterns)

ExactDefaults ==
    /\ config.excludePatterns = <<>>
    /\ config.staleDays = JNum(30)
    /\ Len(config.protectedBranches) = 11
    /\ Elements(config.protectedBranches) = BuiltInNames

\* C8 as stated: for an explicit path that does not exist and for a found
\* file with malformed content, loadConfig returns exactly the defaults.
C8_DefaultsOnBadConfig ==
    (ConfigReturned /\ (ExplicitPathMissing \/ (FileFound /\ Malformed(doc))))
        => ExactDefaults

(***************************************************************************)
(* The tool calls of a session.  The agent is free to call any tool with   *)
(* any argument at any time; the run starts from the configuration file    *)
(* .branchcleanerrc holding {"excludePatterns": ["t*"]} and no option.     *)
(* The handlers share no state but the repository, so the calls that       *)
(* change it and the calls that only query it are explored separately.     *)
(***************************************************************************)
SessionFileSystem == [custom |-> FALSE, names |-> {CONFIG_FILE_NAMES[1]}]
SessionDoc ==
    [parse |-> "object", excludePatterns |-> JArr(<< <<"t","*">> >>),
     staleDays |-> JUndef, protectedBranches |-> JUndef]
SessionLoad == loadConfig(parseArgs(<<>>).configPath, SessionFileSystem, SessionDoc)

SessionStartup ==
    /\ pc = "running"
    /\ argv = <<>>
    /\ args = parseArgs(<<>>)
    /\ fsys = SessionFileSystem
    /\ doc = SessionDoc
    /\ config = SessionLoad.config
    /\ load = [outcome |-> SessionLoad.outcome, path |-> SessionLoad.path]
    /\ excludePatterns = effectiveExcludePatterns(SessionLoad.config, parseArgs(<<>>))
    /\ staleDays = effectiveStaleDays(SessionLoad.config, parseArgs(<<>>))
    /\ repoPath = effectiveRepoPath(parseArgs(<<>>))

Init ==
    /\ SessionStartup
    /\ local = LocalNames
    /\ remote = RemoteNames
    /\ current \in {Main, Feat, DetachedHead}
    /\ approved = {}
    /\ last = NoCall
    /\ dels = <<>>
    /\ OwnIdle

\* the confirmation and the two deletions: the calls that change something
Next ==
    \/ ask_confirmation
    \/ delete_local_branch
    \/ delete_remote_branch

Spec == Init /\ [][Next]_vars

\* the calls that only ask git, in repositories that have main, main and
\* master, only master, or neither
QueryLocals ==
    {LocalNames, LocalNames \cup {Master}, {Master, Feat}, {Feat, Tmp}}

InitQueries ==
    /\ SessionStartup
    /\ local \in QueryLocals
    /\ remote = RemoteNames
    /\ current \in {Feat, DetachedHead}
    /\ approved = {}
    /\ last = NoCall
    /\ dels = <<>>
    /\ OwnIdle

NextQueries ==
    \/ list_branches
    \/ check_merged_status
    \/ get_branch_info
    \/ get_current_branch
    \/ get_main_branch

SpecQueries == InitQueries /\ [][NextQueries]_vars

\* the conversation loop alone
InitLoop ==
    /\ SessionStartup
    /\ local = LocalNames
    /\ remote = RemoteNames
    /\ current = Main
    /\ approved = {}
    /\ last = NoCall
    /\ dels = <<>>
    /\ loop = LoopStart
    /\ glob = NoGlob
    /\ ask = NoAsk

NextLoop ==
    \/ StartTurn
    \/ NextMessage
    \/ ShowPrompt
    \/ ReadInput
    \/ Abort

SpecLoop == InitLoop /\ [][NextLoop]_vars

\* ask_confirmation alone, step by step: the handler calls
\* askUserConfirmation, which prints the list and awaits promptUser; the
\* promise of promptUser resolves in the callback of rl.question, with the
\* line as it was typed; nothing resolves it when the input ends instead
AnswerChars == {"y", "Y", "e", "E", "s", "S", "n", "o", " "}
ConfirmAnswers == StringsOver(AnswerChars, MaxAnswerLen)
NoText == ""
AskIdle == [at |-> "idle", branches |-> {}, answered |-> FALSE, answer |-> <<>>,
            confirmed |-> FALSE, text |-> NoText]

InitConfirm ==
    /\ SessionStartup
    /\ local = LocalNames
    /\ remote = RemoteNames
    /\ current = Main
    /\ approved = {}
    /\ last = NoCall
    /\ dels = <<>>
    /\ loop = NoLoop
    /\ glob = NoGlob
    /\ ask = AskIdle

\* the agent calls the tool: askUserConfirmation runs up to its await
CallAskConfirmation ==
    /\ ask.at = "idle"
    /\ \E bs \in ConfirmLists : ask' = [ask EXCEPT !.at = "prompting", !.branches = bs]
    /\ UNCHANGED <<startupVars, sessionVars, loop, glob>>

\* the user enters a line: promptUser resolves, askUserConfirmation compares
\* and returns, the handler returns its content
AnswerLine ==
    /\ ask.at = "prompting"
    /\ \E answer \in ConfirmAnswers :
        LET confirmed == askUserConfirmation(answer)
        IN  /\ ask' = [ask EXCEPT !.at = "returned", !.answered = TRUE, !.answer = answer,
                                  !.confirmed = confirmed,
                                  !.text = askConfirmationText(confirmed)]
            /\ approved' = IF confirmed THEN approved \cup ask.branches ELSE approved
    /\ UNCHANGED <<local, remote, current, last, dels>>
    /\ UNCHANGED <<startupVars, loop, glob>>

\* the input ends with the question open: the callback is never called and
\* the handler stays at its await
InputClosed ==
    /\ ask.at = "prompting"
    /\ ask' = [ask EXCEPT !.at = "closed"]
    /\ UNCHANGED <<startupVars, sessionVars, loop, glob>>

NextConfirm == CallAskConfirmation \/ AnswerLine \/ InputClosed

SpecConfirm == InitConfirm /\ [][NextConfirm]_vars

(***************************************************************************)
(* Properties of the tool calls.                                           *)
(***************************************************************************)
DeleteTools == {"delete_local_branch", "delete_remote_branch"}

\* C1 as stated: a git delete command runs for a branch only if an earlier
\* ask_confirmation that listed the branch returned confirmed = true.
C1_DeleteOnlyAfterConfirmation ==
    (last.tool \in DeleteTools /\ last.ran) => last.approvedAtCall

\* C2 as stated: delete_local_branch called for the checked-out branch
\* returns the "currently checked out" refusal, runs no git branch -d/-D
\* and leaves the local branches as they were.
C2_CheckedOutRefused ==
    (last.tool = "delete_local_branch" /\ last.currentAtCall = last.branch) =>
        /\ last.result = "refused"
        /\ last.error = CheckedOutMessage
        /\ ~last.ran
        /\ local = last.localBefore

IsProtected(b) == b \in Elements(config.protectedBranches)
IsExcluded(b) == matchesExcludePattern(b, excludePatterns)

\* C3 as stated: no protected branch and no branch matching an exclude
\* pattern is ever proposed for deletion, nor deleted.
C3_ProtectedNeverProposed ==
    /\ last.tool = "ask_confirmation" =>
        \A b \in last.listed : ~IsProtected(b) /\ ~IsExcluded(b)
    /\ (last.tool \in DeleteTools /\ last.ran) =>
        ~IsProtected(last.target) /\ ~IsExcluded(last.target)

\* C9 as stated: a git command failure inside list_branches,
\* check_merged_status, get_branch_info, delete_local_branch or
\* delete_remote_branch is returned as a result; the handler does not throw.
C9_NoHandlerThrows ==
    last.tool \in {"list_branches", "check_merged_status", "get_branch_info"}
                  \cup DeleteTools
        => last.result # "threw"

\* C10: a delete call whose git delete ran is decided by that command alone,
\* at every position of the batch: if it failed the call returns the error
\* with that branch's text and no branch is removed, if it succeeded the
\* call returns success and exactly that branch is removed.
C10_DeletionsIndependent ==
    (last.tool \in DeleteTools /\ last.ran) =>
        /\ Len(dels) >= 1
        /\ ~dels[Len(dels)] =>
            /\ last.result = "error"
            /\ last.error = GitFailedMessage
            /\ last.about = last.target
            /\ local = last.localBefore
            /\ remote = last.remoteBefore
        /\ dels[Len(dels)] =>
            /\ last.result = "success"
            /\ last.tool = "delete_local_branch" =>
                local = last.localBefore \ {last.target} /\ remote = last.remoteBefore
            /\ last.tool = "delete_remote_branch" =>
                remote = last.remoteBefore \ {last.target} /\ local = last.localBefore

\* a confirmed batch of three local deletions of which the second failed
C10_Witness ==
    /\ dels = <<TRUE, FALSE, TRUE>>
    /\ last.tool = "delete_local_branch"
    /\ last.result = "success"
    /\ last.approvedAtCall
    /\ Cardinality(local) = 1
    /\ remote = RemoteNames

(***************************************************************************)
(* Properties of the command line.                                         *)
(***************************************************************************)
HelpFlags == {Flag("h"), LongHelp}
PathFlags == {Flag("p"), LongPath}
ExcludeFlags == {Flag("e"), LongExclude}

\* the positions of a command line that are read as options or positional
\* arguments: every position but those taken as the value of the value
\* option before them
RECURSIVE ReadFrom(_, _)
ReadFrom(a, i) ==
    IF i > Len(a) THEN {}
    ELSE {i} \cup ReadFrom(a, IF a[i] \in ValueFlags THEN i + 2 ELSE i + 1)

ReadPositions(a) == ReadFrom(a, 1)

\* nothing after parseArgs has run: no configuration, no effective setting,
\* no tool call, no conversation
NothingElseRan ==
    /\ doc = NoDoc
    /\ config = NoConfig
    /\ load = NoLoad
    /\ excludePatterns = <<>>
    /\ staleDays = JUndef
    /\ repoPath = JUndef
    /\ last = NoCall
    /\ dels = <<>>
    /\ loop = NoLoop

\* C11 as stated: a help flag anywhere among the arguments makes the program
\* exit before loadConfig or anything else runs.
C11_HelpAnywhereExits ==
    (pc # "start" /\ \E k \in 1..Len(argv) : argv[k] \in HelpFlags) =>
        pc = "exited" /\ NothingElseRan

\* C11 amended: the program exits before anything else runs exactly when a
\* help flag is read as an option, that is when it is not the value taken
\* by the value option before it.
C11_HelpOptionExits ==
    /\ pc # "start" =>
        (pc = "exited" <=> \E k \in ReadPositions(argv) : argv[k] \in HelpFlags)
    /\ pc = "exited" => NothingElseRan

C11_Witness ==
    /\ pc = "exited"
    /\ argv = << <<"a">>, Flag("e"), <<"b">>, LongHelp >>
    /\ args.help

\* the read positions holding a path option, and those holding a positional
\* argument (one that does not start with a dash)
PathOptions(a) == {k \in ReadPositions(a) : a[k] \in PathFlags}
Positionals(a) == {k \in ReadPositions(a) : a[k] = <<>> \/ Head(a[k]) # "-"}
Least(S) == CHOOSE k \in S : \A j \in S : k <= j
Greatest(S) == CHOOSE k \in S : \A j \in S : k >= j

\* C12 as stated: the path is the value of the last path option if there is
\* one (later positional arguments do not change it), else the first
\* positional argument, else it is not set.
C12_FirstPathWins ==
    pc # "start" =>
        IF PathOptions(argv) # {}
        THEN args.repoPath = ArgAt(argv, Greatest(PathOptions(argv)) + 1)
        ELSE IF Positionals(argv) # {}
        THEN args.repoPath = JStr(argv[Least(Positionals(argv))])
        ELSE args.repoPath = JUndef

\* C12 amended: an empty path counts as not set.  The path is the value of
\* the last path option if that is not empty; else the first non-empty
\* positional argument after it; else the empty string if an empty
\* positional argument follows; else the value of the option.
C12_FirstNonEmptyPathWins ==
    pc # "start" =>
        LET P == PathOptions(argv)
            v == IF P = {} THEN JUndef ELSE ArgAt(argv, Greatest(P) + 1)
            After == {k \in Positionals(argv) : P # {} => k > Greatest(P) + 1}
            NonEmpty == {k \in After : argv[k] # <<>>}
        IN  args.repoPath =
                IF v.t = "string" /\ v.s # <<>> THEN v
                ELSE IF NonEmpty # {} THEN JStr(argv[Least(NonEmpty)])
                ELSE IF After # {} THEN JStr(<<>>)
                ELSE v

\* a path option followed by two positional arguments
C12_Witness ==
    /\ pc = "parsed"
    /\ argv = << LongPath, <<"a">>, <<"b">>, <<"a">> >>
    /\ args.repoPath = JStr(<<"a">>)

(***************************************************************************)
(* Properties of the glob matcher.                                         *)
(***************************************************************************)
\* the restricted glob of the documentation: * is any run of characters, ?
\* any one character, every other character itself, over the whole name
RECURSIVE GlobReference(_, _)
GlobReference(name, pattern) ==
    IF pattern = <<>> THEN name = <<>>
    ELSE IF Head(pattern) = "*"
    THEN \/ GlobReference(name, Tail(pattern))
         \/ name # <<>> /\ GlobReference(Tail(name), pattern)
    ELSE /\ name # <<>>
         /\ Head(pattern) = "?" \/ Head(pattern) = Head(name)
         /\ GlobReference(Tail(name), Tail(pattern))

NoWildcard(pattern) == \A i \in 1..Len(pattern) : pattern[i] \notin {"*", "?"}

\* C13: matchGlobPattern returns what the reference glob matcher returns;
\* for a pattern without * or ? that is whether name and pattern are equal,
\* and the empty pattern matches the empty name only.
C13_GlobAgreesWithReference ==
    glob.at = "returned" =>
        /\ glob.result = GlobReference(glob.str, glob.pattern)
        /\ NoWildcard(glob.pattern) => (glob.result = (glob.str = glob.pattern))
        /\ glob.pattern = <<>> => (glob.result = (glob.str = <<>>))

\* a * that matches across a slash
C13_Witness ==
    /\ glob.at = "returned"
    /\ glob.str = <<"a", "/", ".">>
    /\ glob.pattern = <<"a", "*">>
    /\ glob.result

(***************************************************************************)
(* Properties of the queries.                                              *)
(***************************************************************************)
\* the branch a symbolic reference under refs/remotes/origin/ names
NamedByRemoteHead(ref) == SubSeq(ref, 21, Len(ref))

\* C14: get_main_branch never fails and returns main if main resolves, else
\* master if master resolves, else the branch the remote's HEAD names if
\* that resolves, else main.
C14_MainBranchChain ==
    last.tool = "get_main_branch" =>
        /\ last.result = "value"
        /\ last.about =
            IF last.refs.main THEN <<"m","a","i","n">>
            ELSE IF last.refs.master THEN <<"m","a","s","t","e","r">>
            ELSE IF last.refs.remoteHead # <<>> THEN NamedByRemoteHead(last.refs.remoteHead)
            ELSE <<"m","a","i","n">>

\* neither main nor master resolves and the remote's HEAD names fx
C14_Witness ==
    /\ last.tool = "get_main_branch"
    /\ ~last.refs.main
    /\ ~last.refs.master
    /\ last.refs.remoteHead = RemoteHeadPrefix \o Feat
    /\ last.about = Feat
    /\ Main \in local

\* a branch is stale when its whole days exceed the threshold
Stale(days, threshold) == ~days.nan /\ days.n > threshold

C18_MergeCheckAgainstDetectedMain ==
    last.tool = "check_merged_status" =>
        last.mainBranch =
            mainBranchReturn(last.refs.main, last.refs.master,
                             last.refs.remoteHead # <<>>, last.refs.remoteHead).about

(***************************************************************************)
(* Properties of the exclude options.                                      *)
(***************************************************************************)
\* the read positions holding an exclude option that has a value
ExcludeOptions(a) == {k \in ReadPositions(a) : a[k] \in ExcludeFlags /\ k + 1 <= Len(a)}

\* the values of the exclude options from position k on, in order
RECURSIVE ExcludeValuesFrom(_, _)
ExcludeValuesFrom(a, k) ==
    IF k > Len(a) THEN <<>>
    ELSE (IF k \in ExcludeOptions(a) THEN <<a[k + 1]>> ELSE <<>>)
         \o ExcludeValuesFrom(a, k + 1)

NonEmptyString(v) == v # <<>>

\* C16 as stated: the effective exclude patterns are the configuration's
\* followed by every value given to an exclude option, in order.
C16_ExcludesAccumulate ==
    pc = "running" =>
        excludePatterns = config.excludePatterns \o ExcludeValuesFrom(argv, 1)

\* C16 amended: the effective exclude patterns are the configuration's
\* followed by every non-empty value given to an exclude option, in order.
C16_NonEmptyExcludesAccumulate ==
    pc = "running" =>
        excludePatterns =
            config.excludePatterns \o SelectSeq(ExcludeValuesFrom(argv, 1), NonEmptyString)

\* two exclude options after a loaded configuration file
C16_Witness ==
    /\ pc = "running"
    /\ load.outcome = "loaded"
    /\ argv = << Flag("e"), <<"b">>, LongExclude, <<"a">> >>
    /\ Len(excludePatterns) = 14
    /\ SubSeq(excludePatterns, 12, 14) = << <<"t","*">>, <<"b">>, <<"a">> >>

(***************************************************************************)
(* Properties of the search for the configuration file.                    *)
(***************************************************************************)
\* the first of the conventional names, in the documented order, that is
\* among the names
FirstConventional(names) ==
    IF ".branchcleanerrc" \in names THEN ".branchcleanerrc"
    ELSE IF ".branchcleanerrc.json" \in names THEN ".branchcleanerrc.json"
    ELSE IF ".branchcleaner.json" \in names THEN ".branchcleaner.json"
    ELSE "branchcleaner.config.json"

C20_StaleDaysNonNegativeInteger ==
    pc = "running" =>
        /\ staleDays.t = "number"
        /\ ~staleDays.half
        /\ staleDays.n >= 0

(***************************************************************************)
(* Properties of the conversation loop.                                    *)
(***************************************************************************)
\* the inputs that end the session: the empty line, and exit or quit in any
\* letter case
ExitWord(s) ==
    /\ Len(s) = 4
    /\ \/ s[1] \in {"e","E"} /\ s[2] \in {"x","X"} /\ s[3] \in {"i","I"} /\ s[4] \in {"t","T"}
       \/ s[1] \in {"q","Q"} /\ s[2] \in {"u","U"} /\ s[3] \in {"i","I"} /\ s[4] \in {"t","T"}
ExitInput(s) == s = <<>> \/ ExitWord(s)

ErrorResult(m) == m.type = "result" /\ m.subtype = "error"
NoErrorIn(ms) == \A i \in 1..Len(ms) : ~ErrorResult(ms[i])
EndedByError == loop.seen # <<>> /\ ErrorResult(loop.seen[Len(loop.seen)])

\* C19: the loop runs one turn per prompt, shows one prompt after every turn
\* without an error result, and is left exactly on an error result (the rest
\* of the turn unprocessed, no prompt shown) or on an input that is empty,
\* exit or quit; any other input is the next turn's prompt; once the loop
\* is left no turn is started.
C19_SessionLoop ==
    /\ loop.at = "messages" =>
        /\ NoErrorIn(loop.seen)
        /\ loop.prompts = loop.turns - 1
        /\ loop.queryPrompt = IF loop.turns = 1 THEN InitialPrompt ELSE loop.userInput
        /\ loop.turns > 1 => ~ExitInput(loop.userInput)
    /\ loop.at = "prompt" =>
        /\ NoErrorIn(loop.seen)
        /\ loop.stream = <<>>
        /\ loop.prompts = loop.turns
    /\ loop.at = "query" =>
        /\ loop.prompts = loop.turns
        /\ loop.turns > 0 =>
            /\ ~ExitInput(loop.userInput)
            /\ loop.currentPrompt = loop.userInput
    /\ loop.at = "complete" =>
        /\ ~ENABLED NextLoop
        /\ \/ /\ EndedByError
              /\ NoErrorIn(SubSeq(loop.seen, 1, Len(loop.seen) - 1))
              /\ loop.prompts = loop.turns - 1
           \/ /\ NoErrorIn(loop.seen)
              /\ loop.stream = <<>>
              /\ ExitInput(loop.userInput)
              /\ loop.prompts = loop.turns

\* the second turn, started with the user's input, ends the session by an
\* error result with a message left unprocessed
C19_Witness ==
    /\ loop.at = "complete"
    /\ loop.turns = 2
    /\ loop.prompts = 1
    /\ loop.queryPrompt = <<"g","o">>
    /\ EndedByError
    /\ loop.stream # <<>>

(***************************************************************************)
(* Properties of the confirmation tool.                                    *)
(***************************************************************************)

\* "yes" and "y" in every mix of upper and lower case, written out
YesForms ==
    {<<a>> : a \in {"y", "Y"}}
        \cup {<<a, b, c>> : a \in {"y", "Y"}, b \in {"e", "E"}, c \in {"s", "S"}}

\* C21: ask_confirmation has no result before the user has answered; once it
\* has returned, confirmed is true exactly when the answer is "yes" or "y"
\* in any mix of cases, with nothing around it, and the result's text holds
\* confirmed together with "User approved the deletion" when confirmed is
\* true and "User cancelled the operation" when it is false.
C21_ConfirmedIffYes ==
    /\ ask.at \in {"idle", "prompting", "closed"} =>
        /\ ~ask.answered
        /\ ask.text = NoText
        /\ approved = {}
    /\ ask.at = "returned" =>
        /\ ask.answered
        /\ ask.confirmed <=> ask.answer \in YesForms
        /\ ask.confirmed =>
            ask.text = "{\"confirmed\":true,\"message\":\"User approved the deletion\"}"
        /\ ~ask.confirmed =>
            ask.text = "{\"confirmed\":false,\"message\":\"User cancelled the operation\"}"
        /\ approved = (IF ask.answer \in YesForms THEN ask.branches ELSE {})

\* the user answered "YeS" and the tool returned confirmed = true
C21_Witness ==
    /\ ask.at = "returned"
    /\ ask.answer = <<"Y", "e", "S">>
    /\ ask.confirmed
    /\ ask.text = "{\"confirmed\":true,\"message\":\"User approved the deletion\"}"

====
